---- MODULE Spec2Model ----
(***************************************************************************)
(* Index structures of the geo repository: the AVL ordered multiset        *)
(* (structures/avltree.py), the plain and the keyed priority queue         *)
(* (structures/pq.py, build/lib/structures/pq_v2.py), the KD tree          *)
(* (structures/kdtree.py with the GeoPt of geometry/pt.py) and the bounds  *)
(* tree (structures/bounds_tree.py with build/lib/structures/quick_sort.py)*)
(*                                                                         *)
(* Python's Optional[X] is encoded as a tuple: <<>> is None, <<v>> is v.   *)
(* An absent child is the record Nil; a node is a record with the fields   *)
(* of the Python class.                                                    *)
(***************************************************************************)
EXTENDS Integers, Sequences, FiniteSets, TLC

VARIABLES
    root,       \* AVLTree.root of the tree under test
    ref,        \* reference multiset of the keys inserted and not deleted
    avlLast,    \* the last AVLTree call: [op, key, rootVal, twoChild]
    avlRet,     \* what the last AVLTree call returned, if it was a query
    pqTree,     \* PriorityQueue.tree.root (plain queue)
    pqAll,      \* every value enqueued so far, in call order
    pqOut,      \* every value dequeued so far, in call order
    pqMixed,    \* TRUE once an enq followed a deq
    pqLast,     \* the last plain-queue call: [op, ret]
    kqTree,     \* keyed PriorityQueue.tree.root
    keys,       \* keyed PriorityQueue.keys: dict key -> list of values
    reverse_keys, \* keyed PriorityQueue.reverse_keys: dict value -> key
    comp,       \* what comparator(value) returns now, per value
    kqLive,     \* the <<value, key>> pairs enqueued and not dequeued, oldest first
    kqLast,     \* the last keyed-queue call: [op, val, ret, err]
    kdRoot,     \* KDTree.root
    kdWeight,   \* KDTree.weight
    kdBound,    \* KDTree.bound
    kdLast,     \* the last KDTree call: [op, arg, ret, err]
    tqRoot,     \* tree-keyed PriorityQueue: tree.root
    tqKeys,     \* tree-keyed PriorityQueue: tree.keys, key -> list of values
    tqLive,     \* the <<value, key>> pairs a most-recent-first queue would hold
    tqLast,     \* the last call on the tree-keyed queue: [op, val, ret, err]
    btRoot,     \* BoundsTree.root
    btWeight,   \* BoundsTree.weight
    btBigBound, \* BoundsTree.big_bound
    btLast,     \* the last BoundsTree call: [op, arg, ret, err]
    qsIn,       \* the list handed to the selection functions, as it was
    qsArr,      \* that list as the calls so far have left it
    qsLast,     \* the last selection call: [op, n, ret]
    gRoot,      \* generic AVLTree.root (keys of any sign)
    gLast,      \* the last call on the generic AVLTree: [op, key]
    bdCalls,    \* the <<depth, xymm>> of the append_median calls of the last
                \* add_all that selected a median
    bdLast,     \* the last bulk construction: [op, arg]
    shapeArgs   \* the point list given to each Shape constructed so far

avlVars == <<root, ref, avlLast, avlRet>>
pqVars  == <<pqTree, pqAll, pqOut, pqMixed, pqLast>>
kqVars  == <<kqTree, keys, reverse_keys, comp, kqLive, kqLast>>
kdVars  == <<kdRoot, kdWeight, kdBound, kdLast>>
btVars  == <<btRoot, btWeight, btBigBound, btLast>>
tqVars  == <<tqRoot, tqKeys, tqLive, tqLast>>
qsVars  == <<qsIn, qsArr, qsLast>>
genVars == <<gRoot, gLast>>
bdVars  == <<bdCalls, bdLast>>
shVars  == <<shapeArgs>>
vars    == <<avlVars, pqVars, kqVars, kdVars, btVars, tqVars, qsVars, genVars, bdVars,
             shVars>>

\* what the calls on one structure leave alone
newer  == <<genVars, bdVars, shVars>>
notAVL == <<pqVars, kqVars, kdVars, btVars, tqVars, qsVars, newer>>
notPQ  == <<avlVars, kqVars, kdVars, btVars, tqVars, qsVars, newer>>
notKQ  == <<avlVars, pqVars, kdVars, btVars, tqVars, qsVars, newer>>
notKD  == <<avlVars, pqVars, kqVars, btVars, tqVars, qsVars, newer>>
notBT  == <<avlVars, pqVars, kqVars, kdVars, tqVars, qsVars, newer>>
\* the tree-keyed queue reads comp and leaves it alone
notTQ  == <<avlVars, pqVars, kqTree, keys, reverse_keys, kqLive, kqLast, kdVars, btVars,
            qsVars, newer>>
notQS  == <<avlVars, pqVars, kqVars, kdVars, btVars, tqVars, newer>>
older  == <<avlVars, pqVars, kqVars, tqVars, qsVars>>
notGen   == <<older, kdVars, btVars, bdVars, shVars>>
notBuild == <<older, kdVars, genVars, shVars>>
notShape == <<older, btVars, genVars, bdVars>>

-----------------------------------------------------------------------------
(* Bounds of the model *)

MaxKey    == 5      \* AVL keys are 1..MaxKey
MaxWeight == 6      \* no insert once the root weight reaches this
MaxEnq    == 4      \* enq calls on the plain queue
MaxVal    == 3      \* plain-queue values are 1..MaxVal
MaxKQVal  == 3      \* keyed-queue values are 1..MaxKQVal
MaxKQKey  == 2      \* keyed-queue keys are 1..MaxKQKey
MaxKQSize == 3      \* no enq or update once the keyed tree weight reaches this
GridMax   == 2      \* point coordinates are whole degrees 0..GridMax
MaxPoints == 3      \* points in the KDTree
MaxBatch  == 2      \* points in one add_all call
MaxShapes == 3      \* shapes in the BoundsTree
QueryMax  == 4      \* find_shape is asked about the points of 0..QueryMax squared
MaxLen    == 4      \* length of the lists handed to quick_select
MaxElem   == 3      \* their elements are 1..MaxElem
MaxQueryWeight == 4 \* no insert at this root weight where the queries are run
MaxGKey   == 2      \* keys of the generic AVLTree are -MaxGKey..MaxGKey
MaxGWeight == 4     \* no insert at this root weight of the generic AVLTree
MaxBuild  == 4      \* length of the lists a tree is bulk-constructed from
DeepLen   == 16     \* length of the one long list a tree is bulk-constructed from
MaxOwners == 2      \* number of Shape objects constructed

Keys   == 1..MaxKey
PQVals == 1..MaxVal
KQVals == 1..MaxKQVal
KQKeys == 1..MaxKQKey
Coords == 0..GridMax

-----------------------------------------------------------------------------
(* Helpers *)

None == <<>>
Some(v) == <<v>>

Max(a, b) == IF a >= b THEN a ELSE b
Min(a, b) == IF a <= b THEN a ELSE b

Nil == [nil |-> TRUE]
IsNil(n) == "nil" \in DOMAIN n

-----------------------------------------------------------------------------
(* structures/avltree.py *)

Node(val) ==
    [val |-> val, left |-> Nil, right |-> Nil,
     height |-> 1, count |-> 1, weight |-> 1]

get_height(node) == IF IsNil(node) THEN 0 ELSE node.height

set_height(node) ==
    [node EXCEPT !.height = 1 + Max(get_height(node.left), get_height(node.right))]

get_weight(node) == IF IsNil(node) THEN 0 ELSE node.weight

set_weight_nocount(node) ==
    [node EXCEPT !.weight = 1 + get_weight(node.left) + get_weight(node.right)]

set_weight(node) ==
    [node EXCEPT !.weight = node.count + get_weight(node.left) + get_weight(node.right)]

get_balance(node) ==
    IF IsNil(node) THEN 0 ELSE get_height(node.left) - get_height(node.right)

left_rotate_none(node) == node

left_rotate(node) ==
    IF IsNil(node) \/ IsNil(node.right) THEN node
    ELSE LET right      == node.right
             right_left == right.left
             node1      == set_weight(set_height([node EXCEPT !.right = right_left]))
         IN  set_weight(set_height([right EXCEPT !.left = node1]))

right_rotate(node) ==
    IF IsNil(node) \/ IsNil(node.left) THEN node
    ELSE LET left       == node.left
             left_right == left.right
             node1      == set_weight(set_height([node EXCEPT !.left = left_right]))
         IN  set_weight(set_height([left EXCEPT !.right = node1]))

\* the four rotation tests of insert_helper, on the updated node
insert_rebalance(node, key) ==
    LET balance == get_balance(node) IN
    IF balance > 1 /\ key < node.left.val THEN right_rotate(node)
    ELSE IF balance < -1 /\ key > node.right.val THEN left_rotate(node)
    ELSE IF balance > 1 /\ key > node.left.val
         THEN right_rotate([node EXCEPT !.left = left_rotate(node.left)])
    ELSE IF balance < -1 /\ key < node.right.val
         THEN left_rotate([node EXCEPT !.right = right_rotate(node.right)])
    ELSE node

RECURSIVE insert_helper(_, _)
insert_helper(node, key) ==
    IF IsNil(node) THEN Node(key)
    ELSE LET node1 == IF key < node.val
                        THEN [node EXCEPT !.left = insert_helper(node.left, key)]
                      ELSE IF key > node.val
                        THEN [node EXCEPT !.right = insert_helper(node.right, key)]
                      ELSE [node EXCEPT !.count = node.count + 1]
         IN  insert_rebalance(set_weight(set_height(node1)), key)

RECURSIVE get_min_value_node(_)
get_min_value_node(node) ==
    IF IsNil(node) \/ IsNil(node.left) THEN node
    ELSE get_min_value_node(node.left)

\* the four rotation tests of delete_helper, on the updated node
delete_rebalance(node) ==
    LET balance == get_balance(node) IN
    IF balance > 1 /\ get_balance(node.left) >= 0 THEN right_rotate(node)
    ELSE IF balance < -1 /\ get_balance(node.right) <= 0 THEN left_rotate(node)
    ELSE IF balance > 1 /\ get_balance(node.left) < 0
         THEN right_rotate([node EXCEPT !.left = left_rotate(node.left)])
    ELSE IF balance < -1 /\ get_balance(node.right) > 0
         THEN left_rotate([node EXCEPT !.right = right_rotate(node.right)])
    ELSE node

RECURSIVE delete_helper(_, _)
delete_helper(node, key) ==
    IF IsNil(node) THEN Nil
    ELSE IF key < node.val
      THEN delete_rebalance(set_weight(set_height(
               [node EXCEPT !.left = delete_helper(node.left, key)])))
    ELSE IF key > node.val
      THEN delete_rebalance(set_weight(set_height(
               [node EXCEPT !.right = delete_helper(node.right, key)])))
    ELSE IF node.count > 1
      THEN delete_rebalance(set_weight(set_height(
               [node EXCEPT !.count = node.count - 1])))
    ELSE IF IsNil(node.left) THEN node.right
    ELSE IF IsNil(node.right) THEN node.left
    ELSE LET temp == get_min_value_node(node.right)
         IN  delete_rebalance(set_weight(set_height(
               [node EXCEPT !.val   = temp.val,
                            !.count = temp.count,
                            !.right = delete_helper(node.right, temp.val)])))

RECURSIVE get_min_value_helper(_)
get_min_value_helper(node) ==
    IF IsNil(node) THEN None
    ELSE IF IsNil(node.left) THEN Some(node.val)
    ELSE get_min_value_helper(node.left)

get_min_value_root(tree) == IF IsNil(tree) THEN None ELSE Some(tree.val)

get_min_value(tree) == get_min_value_helper(tree)

RECURSIVE rank_helper(_, _)
rank_helper(node, key) ==
    IF IsNil(node) THEN 0
    ELSE IF key < node.val THEN rank_helper(node.left, key)
    ELSE IF key > node.val
      THEN get_weight(node) - get_weight(node.right) + rank_helper(node.right, key)
    ELSE get_weight(node.left)

get_rank_zero(tree, key) == rank_helper(tree, key)

get_rank(tree, key) == rank_helper(tree, key) + 1

RECURSIVE in_order(_)
in_order(node) ==
    IF IsNil(node) THEN <<>>
    ELSE in_order(node.left) \o <<node.val>> \o in_order(node.right)

-----------------------------------------------------------------------------
(* What a tree holds, read off its structure *)

RECURSIVE Nodes(_)
Nodes(node) ==
    IF IsNil(node) THEN {}
    ELSE {node} \cup Nodes(node.left) \cup Nodes(node.right)

RECURSIVE TrueHeight(_)
TrueHeight(node) ==
    IF IsNil(node) THEN 0
    ELSE 1 + Max(TrueHeight(node.left), TrueHeight(node.right))

RECURSIVE CountOf(_, _)
CountOf(node, key) ==
    IF IsNil(node) THEN 0
    ELSE (IF node.val = key THEN node.count ELSE 0)
         + CountOf(node.left, key) + CountOf(node.right, key)

RECURSIVE CountLess(_, _)
CountLess(node, key) ==
    IF IsNil(node) THEN 0
    ELSE (IF node.val < key THEN node.count ELSE 0)
         + CountLess(node.left, key) + CountLess(node.right, key)

StoredKeys(node) == {n.val : n \in Nodes(node)}

-----------------------------------------------------------------------------
(* AVLTree under arbitrary insert / delete calls *)

RECURSIVE FindNode(_, _)
FindNode(node, key) ==
    IF IsNil(node) THEN Nil
    ELSE IF key < node.val THEN FindNode(node.left, key)
    ELSE IF key > node.val THEN FindNode(node.right, key)
    ELSE node

RootVal(tree) == IF IsNil(tree) THEN None ELSE Some(tree.val)

\* the node a delete(key) call finds has count 1 and two children
HitsTwoChildren(tree, key) ==
    LET n == FindNode(tree, key)
    IN  /\ ~IsNil(n)
        /\ n.count = 1
        /\ ~IsNil(n.left)
        /\ ~IsNil(n.right)

AVLInit ==
    /\ root = Nil
    /\ ref = [k \in Keys |-> 0]
    /\ avlLast = [op |-> "init", key |-> 0, rootVal |-> None, twoChild |-> FALSE]
    /\ avlRet = None

AVLInsert(key) ==
    /\ get_weight(root) < MaxWeight
    /\ root' = insert_helper(root, key)
    /\ ref' = [ref EXCEPT ![key] = @ + 1]
    /\ avlLast' = [op |-> "insert", key |-> key,
                   rootVal |-> RootVal(root), twoChild |-> FALSE]
    /\ avlRet' = None
    /\ UNCHANGED notAVL

AVLDelete(key) ==
    /\ root' = delete_helper(root, key)
    /\ ref' = [ref EXCEPT ![key] = IF @ > 0 THEN @ - 1 ELSE 0]
    /\ avlLast' = [op |-> "delete", key |-> key,
                   rootVal |-> RootVal(root), twoChild |-> HitsTwoChildren(root, key)]
    /\ avlRet' = None
    /\ UNCHANGED notAVL

\* the queries write no field of the tree
AVLGetMinValue ==
    /\ avlRet' = get_min_value(root)
    /\ avlLast' = [op |-> "get_min_value", key |-> 0,
                   rootVal |-> RootVal(root), twoChild |-> FALSE]
    /\ UNCHANGED <<root, ref, notAVL>>

AVLGetRank(key) ==
    /\ avlRet' = Some(get_rank(root, key))
    /\ avlLast' = [op |-> "get_rank", key |-> key,
                   rootVal |-> RootVal(root), twoChild |-> FALSE]
    /\ UNCHANGED <<root, ref, notAVL>>

(* structures/pq.py: the plain PriorityQueue over its own AVLTree *)

is_empty(tree) == IsNil(tree)

\* tree.delete(min_val); a None min_val meets only the empty tree, where
\* delete_helper returns None at once
pq_delete(tree, min_val) ==
    IF min_val = None THEN tree ELSE delete_helper(tree, min_val[1])

PQIdle ==
    /\ pqTree = Nil
    /\ pqAll = <<>>
    /\ pqOut = <<>>
    /\ pqMixed = FALSE
    /\ pqLast = [op |-> "init", ret |-> None]

PQEnq(val) ==
    /\ Len(pqAll) < MaxEnq
    /\ pqTree' = insert_helper(pqTree, val)
    /\ pqAll' = Append(pqAll, val)
    /\ pqMixed' = (pqMixed \/ pqLast.op = "deq")
    /\ pqLast' = [op |-> "enq", ret |-> None]
    /\ UNCHANGED <<pqOut, notPQ>>

PQDeq ==
    LET min_val == get_min_value(pqTree) IN
    /\ pqTree' = pq_delete(pqTree, min_val)
    /\ pqOut' = IF min_val = None THEN pqOut ELSE Append(pqOut, min_val[1])
    /\ pqLast' = [op |-> "deq", ret |-> min_val]
    /\ UNCHANGED <<pqAll, pqMixed, notPQ>>

-----------------------------------------------------------------------------
(* build/lib/structures/pq_v2.py: the keyed PriorityQueue.  Its tree is the *)
(* AVLTree above; a dict is a function whose domain is the set of its keys; *)
(* a raised exception leaves what was written before the raising line.     *)

\* list.pop(): the last element and the list without it
list_pop_first(list) == [ret |-> list[1], rest |-> Tail(list)]

list_pop(list) == [ret |-> list[Len(list)], rest |-> SubSeq(list, 1, Len(list) - 1)]

list_contains(list, value) == \E i \in 1..Len(list) : list[i] = value

\* list.remove(value): drops the first occurrence
list_remove(list, value) ==
    LET i == CHOOSE j \in 1..Len(list) :
                 list[j] = value /\ \A h \in 1..(j - 1) : list[h] # value
    IN  SubSeq(list, 1, i - 1) \o SubSeq(list, i + 1, Len(list))

dict_set(dict, k, v) == [x \in DOMAIN dict \cup {k} |-> IF x = k THEN v ELSE dict[x]]

EmptyDict == [x \in {} |-> 0]

RECURSIVE SumLen(_, _)
SumLen(dict, ks) ==
    IF ks = {} THEN 0
    ELSE LET k == CHOOSE x \in ks : TRUE
         IN  Len(dict[k]) + SumLen(dict, ks \ {k})

\* the keyed queue has room: fewer than MaxKQSize keys in the tree and
\* fewer than MaxKQSize values in the lists
KQRoom ==
    /\ get_weight(kqTree) < MaxKQSize
    /\ SumLen(keys, DOMAIN keys) < MaxKQSize

\* enq on the fields q = [tree, keys, reverse_keys], with key = comparator(value)
kq_enq(q, value, key) ==
    LET keys1 == IF key \notin DOMAIN q.keys
                   THEN dict_set(q.keys, key, <<value>>)
                   ELSE dict_set(q.keys, key, Append(q.keys[key], value))
    IN  [tree         |-> insert_helper(q.tree, key),
         keys         |-> keys1,
         reverse_keys |-> dict_set(q.reverse_keys, value, key)]

KQIdle ==
    /\ kqTree = Nil
    /\ keys = EmptyDict
    /\ reverse_keys = EmptyDict
    /\ comp = [v \in KQVals |-> 1]
    /\ kqLive = <<>>
    /\ kqLast = [op |-> "init", val |-> None, ret |-> None, err |-> "none"]

\* a keyed queue whose comparator may give any key to each value
KQInit ==
    /\ kqTree = Nil
    /\ keys = EmptyDict
    /\ reverse_keys = EmptyDict
    /\ comp \in [KQVals -> KQKeys]
    /\ kqLive = <<>>
    /\ kqLast = [op |-> "init", val |-> None, ret |-> None, err |-> "none"]

\* index in live of the pair a most-recent-first-per-key queue dequeues
LifoMinIndex(live) ==
    CHOOSE i \in 1..Len(live) :
        /\ \A j \in 1..Len(live) : live[i][2] <= live[j][2]
        /\ \A j \in (i + 1)..Len(live) : live[j][2] # live[i][2]

RemoveAt(seq, i) == SubSeq(seq, 1, i - 1) \o SubSeq(seq, i + 1, Len(seq))

KQEnq(value) ==
    LET q == kq_enq([tree |-> kqTree, keys |-> keys, reverse_keys |-> reverse_keys],
                    value, comp[value])
    IN  /\ KQRoom
        /\ kqTree' = q.tree
        /\ keys' = q.keys
        /\ reverse_keys' = q.reverse_keys
        /\ kqLive' = Append(kqLive, <<value, comp[value]>>)
        /\ kqLast' = [op |-> "enq", val |-> Some(value), ret |-> None, err |-> "none"]
        /\ UNCHANGED <<comp, notKQ>>

\* deq without its "if key is None: return"
KQDeq_unguarded ==
    LET key == get_min_value(kqTree) IN
    /\ IF key = None
         THEN /\ kqLast' = [op |-> "deq", val |-> None, ret |-> None,
                            err |-> "KeyError"]
              /\ UNCHANGED <<kqTree, keys>>
         ELSE /\ kqTree' = delete_helper(kqTree, key[1])
              /\ LET popped == list_pop(keys[key[1]])
                 IN  /\ keys' = dict_set(keys, key[1], popped.rest)
                     /\ kqLast' = [op |-> "deq", val |-> None,
                                   ret |-> Some(popped.ret), err |-> "none"]
    /\ kqLive' = IF kqLive = <<>> THEN kqLive ELSE RemoveAt(kqLive, LifoMinIndex(kqLive))
    /\ UNCHANGED <<reverse_keys, comp, notKQ>>

KQDeq ==
    LET key == get_min_value(kqTree) IN
    /\ IF key = None
         THEN /\ kqLast' = [op |-> "deq", val |-> None, ret |-> None, err |-> "none"]
              /\ UNCHANGED <<kqTree, keys>>
         ELSE /\ kqTree' = delete_helper(kqTree, key[1])
              /\ IF key[1] \notin DOMAIN keys
                   THEN /\ kqLast' = [op |-> "deq", val |-> None, ret |-> None,
                                      err |-> "KeyError"]
                        /\ UNCHANGED keys
                   ELSE IF keys[key[1]] = <<>>
                   THEN /\ kqLast' = [op |-> "deq", val |-> None, ret |-> None,
                                      err |-> "IndexError"]
                        /\ UNCHANGED keys
                   ELSE LET popped == list_pop(keys[key[1]])
                        IN  /\ keys' = dict_set(keys, key[1], popped.rest)
                            /\ kqLast' = [op |-> "deq", val |-> None,
                                          ret |-> Some(popped.ret), err |-> "none"]
    /\ kqLive' = IF kqLive = <<>> THEN kqLive ELSE RemoveAt(kqLive, LifoMinIndex(kqLive))
    /\ UNCHANGED <<reverse_keys, comp, notKQ>>

KQUpdate(value) ==
    LET key == comp[value]
        q0  == [tree |-> kqTree, keys |-> keys, reverse_keys |-> reverse_keys]
    IN
    /\ KQRoom
    /\ IF value \in DOMAIN reverse_keys
            /\ ~list_contains(keys[reverse_keys[value]], value)
         THEN \* self.keys[old_key].remove(value) raises before anything is written
              /\ kqLast' = [op |-> "update", val |-> Some(value), ret |-> None,
                            err |-> "ValueError"]
              /\ UNCHANGED <<kqTree, keys, reverse_keys>>
         ELSE LET q1 == IF value \in DOMAIN reverse_keys
                          THEN LET old_key == reverse_keys[value]
                               IN  [tree |-> delete_helper(kqTree, key),
                                    keys |-> dict_set(keys, old_key,
                                                      list_remove(keys[old_key], value)),
                                    reverse_keys |-> dict_set(reverse_keys, value, key)]
                          ELSE q0
                  q2 == kq_enq(q1, value, key)
              IN  /\ kqTree' = q2.tree
                  /\ keys' = q2.keys
                  /\ reverse_keys' = q2.reverse_keys
                  /\ kqLast' = [op |-> "update",
                                val |-> Some(value),
                                ret |-> IF value \in DOMAIN reverse_keys
                                          THEN Some(reverse_keys[value]) ELSE None,
                                err |-> "none"]
    /\ UNCHANGED <<comp, kqLive, notKQ>>

\* the collaborator changes the key of a value the queue has seen (what
\* update is there for)
KQSetKey(value, key) ==
    /\ value \in DOMAIN reverse_keys
    /\ comp[value] # key
    /\ comp' = [comp EXCEPT ![value] = key]
    /\ UNCHANGED <<kqTree, keys, reverse_keys, kqLive, kqLast, notKQ>>

-----------------------------------------------------------------------------
(* structures/pq_v2.py over src/geo/structures/avltree_v2.py: the keyed     *)
(* PriorityQueue whose tree keeps the dict keys itself.  The nodes of that  *)
(* tree hold keys the way the nodes of the AVLTree above hold values, and   *)
(* its insert_helper and delete_helper are line for line those above (its   *)
(* tests "right_key and", "left_key and" are true of the keys here, which   *)
(* are positive).                                                           *)

\* AVLTree.insert(value) on t = [root, keys], with key = comparator(value)
tq_insert(t, value, key) ==
    [root |-> insert_helper(t.root, key),
     keys |-> IF key \notin DOMAIN t.keys
                THEN dict_set(t.keys, key, <<value>>)
                ELSE dict_set(t.keys, key, Append(t.keys[key], value))]

\* AVLTree.delete(value), with key = comparator(value)
tq_delete(t, value, key) ==
    IF key \in DOMAIN t.keys /\ list_contains(t.keys[key], value)
      THEN [root |-> delete_helper(t.root, key),
            keys |-> dict_set(t.keys, key, list_remove(t.keys[key], value))]
      ELSE t

\* AVLTree.get_min_value(): self.keys[node.key][-1] of the leftmost node
tq_get_min_value(t) ==
    IF IsNil(t.root) THEN None
    ELSE LET key == get_min_value(t.root)[1]
         IN  Some(t.keys[key][Len(t.keys[key])])

TQIdle ==
    /\ tqRoot = Nil
    /\ tqKeys = EmptyDict
    /\ tqLive = <<>>
    /\ tqLast = [op |-> "init", val |-> None, ret |-> None, err |-> "none"]

TQEnq(val) ==
    LET t == tq_insert([root |-> tqRoot, keys |-> tqKeys], val, comp[val])
    IN  /\ get_weight(tqRoot) < MaxKQSize
        /\ tqRoot' = t.root
        /\ tqKeys' = t.keys
        /\ tqLive' = Append(tqLive, <<val, comp[val]>>)
        /\ tqLast' = [op |-> "enq", val |-> Some(val), ret |-> None, err |-> "none"]
        /\ UNCHANGED <<comp, notTQ>>

TQDeq ==
    LET min_val == tq_get_min_value([root |-> tqRoot, keys |-> tqKeys])
    IN  /\ IF min_val = None
             THEN \* delete(None) calls comparator(None); the comparators
                  \* here are defined on the values only
                  /\ tqLast' = [op |-> "deq", val |-> None, ret |-> None,
                                err |-> "comparator(None)"]
                  /\ UNCHANGED <<tqRoot, tqKeys, tqLive>>
             ELSE LET t == tq_delete([root |-> tqRoot, keys |-> tqKeys],
                                     min_val[1], comp[min_val[1]])
                  IN  /\ tqRoot' = t.root
                      /\ tqKeys' = t.keys
                      /\ tqLive' = RemoveAt(tqLive, LifoMinIndex(tqLive))
                      /\ tqLast' = [op |-> "deq", val |-> None, ret |-> min_val,
                                    err |-> "none"]
        /\ UNCHANGED <<comp, notTQ>>

-----------------------------------------------------------------------------
(* geometry/pt.py and geometry/distance.py: GeoPt, the point of the KDTree. *)
(* A point is [x, y] with x = lon and y = lat in whole degrees.  float inf  *)
(* is Inf.  get_distance is in km rounded to 3 decimals in the code and in  *)
(* metres here (the same number times 1000).                                *)

Inf == 1000000000

GeoPt(lat, lon) == [x |-> lon, y |-> lat]

Pts == {GeoPt(lat, lon) : lat \in Coords, lon \in Coords}

\* GeoPt(float("inf"), float("inf"))
InfPt == GeoPt(Inf, Inf)

Abs(n) == IF n < 0 THEN -n ELSE n

\* getattr(point, level)
coord(point, level) == IF level = "x" THEN point.x ELSE point.y

\* DistanceCalculator.get_distance_xy(lat1, 0, lat2, dlon) * 1000 at
\* [lat1 + 1][lat2 + 1][dlon + 1], for whole degrees 0..3: the values of
\* round(6371 * 2 * atan2(sqrt(a), sqrt(1 - a)), 3) with
\* a = sin(dlat/2)**2 + cos(lat1) * cos(lat2) * sin(dlon/2)**2
HaversineM ==
    <<
       <<<<0, 111195, 222390, 333585>>,
         <<111195, 157249, 248629, 351613>>,
         <<222390, 248629, 314475, 400863>>,
         <<333585, 351613, 400863, 471652>>>>,
       <<<<111195, 157249, 248629, 351613>>,
         <<0, 111178, 222356, 333534>>,
         <<111195, 157225, 248569, 351517>>,
         <<222390, 248607, 314403, 400736>>>>,
       <<<<222390, 248629, 314475, 400863>>,
         <<111195, 157225, 248569, 351517>>,
         <<0, 111127, 222254, 333382>>,
         <<111195, 157178, 248448, 351324>>>>,
       <<<<333585, 351613, 400863, 471652>>,
         <<222390, 248607, 314403, 400736>>,
         <<111195, 157178, 248448, 351324>>,
         <<0, 111043, 222085, 333128>>>>
    >>

\* GeoPt.get_distance: the great-circle distance
get_distance(self, point) ==
    HaversineM[self.y + 1][point.y + 1][Abs(self.x - point.x) + 1]

\* GeoPt.get_distance_basic, squared: the code takes the square root of this
\* sum and uses the result in > comparisons only, which the square keeps
get_distance_basic(self, point) ==
    IF point = InfPt \/ self = InfPt THEN Inf
    ELSE (self.y - point.y) * (self.y - point.y)
         + (self.x - point.x) * (self.x - point.x)

\* the loop of GeoPt.get_closest_point from points[i] on
RECURSIVE closest_loop(_, _, _, _, _)
closest_loop(self, points, i, nearest_point, nearest_dist) ==
    IF i > Len(points) THEN nearest_point
    ELSE LET dist == get_distance_basic(self, points[i])
         IN  IF nearest_dist > dist
               THEN closest_loop(self, points, i + 1, Some(points[i]), dist)
               ELSE closest_loop(self, points, i + 1, nearest_point, nearest_dist)

\* GeoPt.get_closest_point(*points): <<point or None, distance>>
get_closest_point(self, points) ==
    LET nearest_point == closest_loop(self, points, 1, None, Inf)
    IN  IF nearest_point = None THEN <<None, Inf>>
        ELSE <<nearest_point, get_distance(self, nearest_point[1])>>

-----------------------------------------------------------------------------
(* structures/kdtree.py *)

KDNode(point, level) == [point |-> point, level |-> level, left |-> Nil, right |-> Nil]

KDNode_next_level_same(node) == node.level

KDNode_next_level(node) == IF node.level = "x" THEN "y" ELSE "x"

RECURSIVE KDNode_add(_, _)
KDNode_add(node, point) ==
    IF coord(point, node.level) <= coord(node.point, node.level)
      THEN IF IsNil(node.left)
             THEN [node EXCEPT !.left = KDNode(point, KDNode_next_level(node))]
             ELSE [node EXCEPT !.left = KDNode_add(node.left, point)]
      ELSE IF IsNil(node.right)
             THEN [node EXCEPT !.right = KDNode(point, KDNode_next_level(node))]
             ELSE [node EXCEPT !.right = KDNode_add(node.right, point)]

\* <<next_branch, other_branch>>
get_next_other_branch(node, point) ==
    IF coord(point, node.level) < coord(node.point, node.level)
      THEN <<node.left, node.right>>
      ELSE <<node.right, node.left>>

\* best_d >= s_d, with best_d in metres and s_d in degrees
prune_test(best_d, s_d) == best_d >= 1000 * s_d

\* KDNode.nearest with _get_temp_point and _backtrack: <<best, best_d>>
RECURSIVE KDNode_nearest(_, _)
KDNode_nearest(node, point) ==
    LET branches     == get_next_other_branch(node, point)
        next_branch  == branches[1]
        other_branch == branches[2]
        temp == IF ~IsNil(next_branch)
                  THEN KDNode_nearest(next_branch, point)[1]
                  ELSE Some(InfPt)
        first == IF temp # None
                   THEN get_closest_point(point, <<temp[1], node.point>>)
                   ELSE <<None, Inf>>
        s_d == Abs(coord(point, node.level) - coord(node.point, node.level))
    IN  IF prune_test(first[2], s_d) /\ ~IsNil(other_branch)
          THEN LET temp2 == KDNode_nearest(other_branch, point)[1]
               IN  IF temp2 # None /\ first[1] # None
                     THEN get_closest_point(point, <<temp2[1], first[1][1]>>)
                     ELSE <<None, Inf>>
          ELSE first

Bound(min_x, max_x, min_y, max_y) ==
    [min_x |-> min_x, max_x |-> max_x, min_y |-> min_y, max_y |-> max_y]

remap_min_max(bound, point) ==
    Bound(Min(bound.min_x, point.x), Max(bound.max_x, point.x),
          Min(bound.min_y, point.y), Max(bound.max_y, point.y))

\* the loop of KDTree.add_all on t = [root, weight, bound]
RECURSIVE add_all_loop(_, _)
add_all_loop(t, points) ==
    IF points = <<>> THEN t
    ELSE add_all_loop([root   |-> KDNode_add(t.root, Head(points)),
                       weight |-> t.weight + 1,
                       bound  |-> remap_min_max(t.bound, Head(points))],
                      Tail(points))

KDTree_nearest(tree, point) ==
    IF IsNil(tree) THEN <<None, Inf>> ELSE KDNode_nearest(tree, point)

KDInit ==
    /\ kdRoot = Nil
    /\ kdWeight = 0
    /\ kdBound = Bound(Inf, -Inf, Inf, -Inf)
    /\ kdLast = [op |-> "init", arg |-> None, ret |-> None, err |-> "none"]

KDAdd(point) ==
    /\ kdWeight < MaxPoints
    /\ IF IsNil(kdRoot)
         THEN /\ kdRoot' = KDNode(point, "x")
              /\ UNCHANGED kdBound
         ELSE /\ kdBound' = remap_min_max(kdBound, point)
              /\ kdRoot' = KDNode_add(kdRoot, point)
    /\ kdWeight' = kdWeight + 1
    /\ kdLast' = [op |-> "add", arg |-> Some(point), ret |-> None, err |-> "none"]
    /\ UNCHANGED notKD

KDAddAll(points) ==
    /\ kdWeight + Len(points) <= MaxPoints
    /\ IF IsNil(kdRoot) /\ points = <<>>
         THEN \* points[0] raises IndexError before anything is written
              /\ kdLast' = [op |-> "add_all", arg |-> None, ret |-> None,
                            err |-> "IndexError"]
              /\ UNCHANGED <<kdRoot, kdWeight, kdBound>>
         ELSE LET t0 == IF IsNil(kdRoot)
                          THEN [root   |-> KDNode(points[1], "x"),
                                weight |-> kdWeight + 1,
                                bound  |-> kdBound]
                          ELSE [root |-> kdRoot, weight |-> kdWeight, bound |-> kdBound]
                  rest == IF IsNil(kdRoot) THEN Tail(points) ELSE points
                  t1 == add_all_loop(t0, rest)
              IN  /\ kdRoot' = t1.root
                  /\ kdWeight' = t1.weight
                  /\ kdBound' = t1.bound
                  /\ kdLast' = [op |-> "add_all", arg |-> None, ret |-> None,
                                err |-> "none"]
    /\ UNCHANGED notKD

KDNearest(point) ==
    /\ kdLast' = [op |-> "nearest", arg |-> Some(point),
                  ret |-> KDTree_nearest(kdRoot, point), err |-> "none"]
    /\ UNCHANGED <<kdRoot, kdWeight, kdBound, notKD>>

-----------------------------------------------------------------------------
(* build/lib/structures/quick_sort.py.  Lists are 0-indexed as in the code: *)
(* arr[i] of the code is arr[i + 1] here.  A comparator is named by a tag.  *)

\* comparator(item): "id" is lambda x: x, an edge name is
\* lambda item: getattr(Bound.get_bound_from_shape(item[0]), xymm)
\* (an item of the bounds tree is the shape record, its value is its id)
comparator(tag, item) ==
    CASE tag = "id"    -> item
      [] tag = "min_x" -> item.bounds[1]
      [] tag = "min_y" -> item.bounds[2]
      [] tag = "max_x" -> item.bounds[3]
      [] tag = "max_y" -> item.bounds[4]

swap(arr, i, j) == [arr EXCEPT ![i + 1] = arr[j + 1], ![j + 1] = arr[i + 1]]

\* the for loop of partition from index j on, then the final swap
RECURSIVE partition_loop(_, _, _, _, _)
partition_loop(arr, j, high, i, tag) ==
    IF j >= high THEN [arr |-> swap(arr, i + 1, high), p |-> i + 1]
    ELSE IF ~(comparator(tag, arr[j + 1]) > comparator(tag, arr[high + 1]))
      THEN partition_loop(swap(arr, i + 1, j), j + 1, high, i + 1, tag)
      ELSE partition_loop(arr, j + 1, high, i, tag)

partition(arr, low, high, tag) == partition_loop(arr, low, high, low - 1, tag)

\* [arr: the list as the call leaves it, ret: what it returns]
RECURSIVE quick_select_helper(_, _, _, _, _)
quick_select_helper(arr, low, high, n, tag) ==
    IF low = high /\ high = n THEN [arr |-> arr, ret |-> Some(arr[n + 1])]
    ELSE IF low > high THEN [arr |-> arr, ret |-> None]
    ELSE LET r == partition(arr, low, high, tag)
         IN  IF r.p = n THEN [arr |-> r.arr, ret |-> Some(r.arr[r.p + 1])]
             ELSE IF r.p > n THEN quick_select_helper(r.arr, low, r.p - 1, n, tag)
             ELSE quick_select_helper(r.arr, r.p + 1, high, n, tag)

quick_select_from_zero(arr, n, tag) ==
    quick_select_helper(arr, 0, Len(arr) - 1, n, tag)

quick_select(arr, n, tag) == quick_select_helper(arr, 0, Len(arr) - 1, n - 1, tag)

median_lower(arr, tag) == quick_select(arr, Len(arr) \div 2, tag)

median(arr, tag) == quick_select(arr, (Len(arr) \div 2) + 1, tag)

\* <<left, median, right>>
median_with_left_right(arr, tag) ==
    IF Len(arr) = 0 THEN <<(<<>>), None, (<<>>)>>
    ELSE LET med == median(arr, tag)
             mid == Len(arr) \div 2
         IN  <<SubSeq(med.arr, 1, mid), med.ret, SubSeq(med.arr, mid + 2, Len(arr))>>

-----------------------------------------------------------------------------
(* structures/bound.py and structures/bounds_tree.py.  A shape is          *)
(* [id, bounds, inside]: bounds is shapely's (minx, miny, maxx, maxy) and   *)
(* inside the set of points shape.contains() accepts.  The value stored    *)
(* with a shape is its id.                                                  *)

Shape(id, bounds, inside) == [id |-> id, bounds |-> bounds, inside |-> inside]

P(x, y) == [x |-> x, y |-> y]

\* the shapes the tree is loaded from: boxes that overlap although the
\* shapes are disjoint, one pair of shapes that overlap (3 and 5)
ShapeList ==
    << Shape(1, <<0, 0, 2, 2>>, {P(1, 1)}),
       Shape(2, <<2, 2, 4, 4>>, {P(3, 3)}),
       Shape(3, <<0, 0, 4, 4>>, {P(1, 2), P(1, 3), P(2, 1), P(3, 1)}),
       Shape(4, <<1, 1, 3, 3>>, {P(2, 2)}),
       Shape(5, <<0, 2, 2, 4>>, {P(1, 3)}),
       Shape(6, <<3, 0, 4, 1>>, {}) >>

Shapes == {ShapeList[i] : i \in 1..Len(ShapeList)}

QueryPts == {P(x, y) : x, y \in 0..QueryMax}

\* Bound.get_bound_from_shape, for a shape without a points attribute
get_bound_from_shape(shape) ==
    Bound(shape.bounds[1], shape.bounds[3], shape.bounds[2], shape.bounds[4])

merge_with_keep(self, bound) == self

merge_with(self, bound) ==
    Bound(Min(self.min_x, bound.min_x), Max(self.max_x, bound.max_x),
          Min(self.min_y, bound.min_y), Max(self.max_y, bound.max_y))

Bound_contains(self, point) ==
    /\ point.x >= self.min_x
    /\ point.x <= self.max_x
    /\ point.y >= self.min_y
    /\ point.y <= self.max_y

\* shape.contains(point)
Shape_contains(shape, point) == point \in shape.inside

\* getattr(bound, level)
edge(bound, level) ==
    CASE level = "min_x" -> bound.min_x
      [] level = "min_y" -> bound.min_y
      [] level = "max_x" -> bound.max_x
      [] level = "max_y" -> bound.max_y

\* self.big_bound = self.bound: the two fields are one Bound object, so
\* they are written together
BoundsNode(shape, value, level) ==
    [shape |-> shape, value |-> value,
     bound |-> get_bound_from_shape(shape),
     big_bound |-> get_bound_from_shape(shape),
     level |-> level, left |-> Nil, right |-> Nil]

BoundsNode_next_level(node) ==
    CASE node.level = "min_x" -> "min_y"
      [] node.level = "min_y" -> "max_x"
      [] node.level = "max_x" -> "max_y"
      [] node.level = "max_y" -> "min_x"

RECURSIVE BoundsNode_add(_, _, _)
BoundsNode_add(node, shape, value) ==
    LET bound  == get_bound_from_shape(shape)
        merged == merge_with(node.big_bound, bound)
        self   == [node EXCEPT !.big_bound = merged, !.bound = merged]
    IN  IF edge(bound, self.level) <= edge(self.bound, self.level)
          THEN IF IsNil(self.left)
                 THEN [self EXCEPT !.left =
                          BoundsNode(shape, value, BoundsNode_next_level(self))]
                 ELSE [self EXCEPT !.left = BoundsNode_add(self.left, shape, value)]
          ELSE IF IsNil(self.right)
                 THEN [self EXCEPT !.right =
                          BoundsNode(shape, value, BoundsNode_next_level(self))]
                 ELSE [self EXCEPT !.right = BoundsNode_add(self.right, shape, value)]

\* the edge append_median passes on after xymm
append_median_next(xymm) ==
    CASE xymm = "min_x" -> "min_y"
      [] xymm = "min_y" -> "max_x"
      [] xymm = "max_x" -> "max_y"
      [] OTHER          -> "max_x"

\* what append_median(_list, xymm) appends to sorted_zip
RECURSIVE append_median(_, _)
append_median(list, xymm) ==
    IF Len(list) = 0 THEN <<>>
    ELSE LET r == median_with_left_right(list, xymm)
         IN  (IF r[2] # None THEN <<r[2][1]>> ELSE <<>>)
             \o append_median(r[1], append_median_next(xymm))
             \o append_median(r[3], append_median_next(xymm))

\* the loop of BoundsTree.add_all on t = [root, weight, big_bound]; the body
\* dereferences self.root, which add_all has set before the loop starts
RECURSIVE bt_add_all_loop(_, _)
bt_add_all_loop(t, sorted_zip) ==
    IF sorted_zip = <<>> \/ IsNil(t.root) THEN t
    ELSE LET shape == Head(sorted_zip)
         IN  bt_add_all_loop(
                 [root      |-> BoundsNode_add(t.root, shape, shape.id),
                  weight    |-> t.weight + 1,
                  big_bound |-> merge_with(t.big_bound, get_bound_from_shape(shape))],
                 Tail(sorted_zip))

RECURSIVE find_shape_helper(_, _, _)
find_shape_helper(node, point, value) ==
    IF IsNil(node) THEN value
    ELSE IF ~Bound_contains(node.big_bound, point) THEN value
    ELSE IF ~Shape_contains(node.shape, point)
      THEN find_shape_helper(node.right, point,
                             find_shape_helper(node.left, point, value))
    ELSE Some(node.value)

find_shape_unset(tree, point) == find_shape_helper(tree, point, Some(0))

find_shape(tree, point) == find_shape_helper(tree, point, None)

\* the list L of find_bounds_containing: node.bound of every node visited
RECURSIVE find_bounds_containing_helper(_, _)
find_bounds_containing_helper(node, point) ==
    IF IsNil(node) THEN <<>>
    ELSE IF ~Bound_contains(node.big_bound, point) THEN <<>>
    ELSE <<node.bound>> \o find_bounds_containing_helper(node.left, point)
                       \o find_bounds_containing_helper(node.right, point)

find_bounds_containing(tree, point) == find_bounds_containing_helper(tree, point)

RECURSIVE BTShapes(_)
BTShapes(node) ==
    IF IsNil(node) THEN {}
    ELSE {node.shape} \cup BTShapes(node.left) \cup BTShapes(node.right)

Disjoint(s, t) == s.inside \cap t.inside = {}

BTInit ==
    /\ btRoot = Nil
    /\ btWeight = 0
    /\ btBigBound = Bound(Inf, -Inf, Inf, -Inf)
    /\ btLast = [op |-> "init", arg |-> None, ret |-> None, err |-> "none"]

\* add_all(shapes, values) with values[i] = shapes[i].id
BTAddAll(shapes) ==
    /\ btWeight + Len(shapes) <= MaxShapes
    /\ IF IsNil(btRoot) /\ shapes = <<>>
         THEN \* sorted_zip[0] raises IndexError before anything is written
              /\ btLast' = [op |-> "add_all", arg |-> None, ret |-> None,
                            err |-> "IndexError"]
              /\ UNCHANGED <<btRoot, btWeight, btBigBound>>
         ELSE LET sorted_zip == append_median(shapes, "min_x")
                  t0 == IF IsNil(btRoot)
                          THEN [root      |-> BoundsNode(sorted_zip[1],
                                                         sorted_zip[1].id, "min_x"),
                                weight    |-> btWeight + 1,
                                big_bound |-> get_bound_from_shape(shapes[1])]
                          ELSE [root |-> btRoot, weight |-> btWeight,
                                big_bound |-> btBigBound]
                  rest == IF IsNil(btRoot) THEN Tail(sorted_zip) ELSE sorted_zip
                  t1 == bt_add_all_loop(t0, rest)
              IN  /\ btRoot' = t1.root
                  /\ btWeight' = t1.weight
                  /\ btBigBound' = t1.big_bound
                  /\ btLast' = [op |-> "add_all", arg |-> None, ret |-> None,
                                err |-> "none"]
    /\ UNCHANGED notBT

BTFindShape_stretching(point) ==
    /\ btLast' = [op |-> "find_shape", arg |-> Some(point),
                  ret |-> find_shape(btRoot, point), err |-> "none"]
    /\ btBigBound' = remap_min_max(btBigBound, point)
    /\ UNCHANGED <<btRoot, btWeight, notBT>>

BTFindShape(point) ==
    /\ btLast' = [op |-> "find_shape", arg |-> Some(point),
                  ret |-> find_shape(btRoot, point), err |-> "none"]
    /\ UNCHANGED <<btRoot, btWeight, btBigBound, notBT>>

BTFindBoundsContaining(point) ==
    /\ btLast' = [op |-> "find_bounds_containing", arg |-> Some(point),
                  ret |-> find_bounds_containing(btRoot, point), err |-> "none"]
    /\ UNCHANGED <<btRoot, btWeight, btBigBound, notBT>>

-----------------------------------------------------------------------------
(* quick_select and median_with_left_right called on a list of integers    *)
(* with the default comparator lambda x: x                                   *)

QSIdle ==
    /\ qsIn = <<>>
    /\ qsArr = <<>>
    /\ qsLast = [op |-> "init", n |-> 0, ret |-> None]

QSQuickSelect(n) ==
    LET r == quick_select(qsArr, n, "id")
    IN  /\ qsArr' = r.arr
        /\ qsLast' = [op |-> "quick_select", n |-> n, ret |-> r.ret]
        /\ UNCHANGED <<qsIn, notQS>>

QSMedianWithLeftRight ==
    /\ qsArr' = IF Len(qsArr) = 0 THEN qsArr ELSE median(qsArr, "id").arr
    /\ qsLast' = [op |-> "median_with_left_right", n |-> 0,
                  ret |-> median_with_left_right(qsArr, "id")]
    /\ UNCHANGED <<qsIn, notQS>>

-----------------------------------------------------------------------------
(* The generic AVLTree (src/src/geo/structures/avltree.py): keys of any
   sign; the rotation tests of insert read the child keys by truth value *)

GKeys == (-MaxGKey)..MaxGKey

GNode(key) ==
    [key |-> key, left |-> Nil, right |-> Nil,
     height |-> 1, count |-> 1, weight |-> 1]

get_key(node) == IF IsNil(node) THEN None ELSE Some(node.key)

\* the truth value Python gives an Optional[int]: None and 0 are false
truthy(k) == k # None /\ k[1] # 0

\* the four rotation tests of the generic insert_helper, on the updated node
generic_insert_rebalance(node, key) ==
    LET balance   == get_balance(node)
        left_key  == get_key(node.left)
        right_key == get_key(node.right)
    IN
    IF balance > 1 /\ key < left_key[1] THEN right_rotate(node)
    ELSE IF balance < -1 /\ truthy(right_key) /\ key > right_key[1]
         THEN left_rotate(node)
    ELSE IF balance > 1 /\ truthy(left_key) /\ key > left_key[1]
         THEN right_rotate([node EXCEPT !.left = left_rotate(node.left)])
    ELSE IF balance < -1 /\ key < right_key[1]
         THEN left_rotate([node EXCEPT !.right = right_rotate(node.right)])
    ELSE node

RECURSIVE generic_insert_helper(_, _)
generic_insert_helper(node, key) ==
    IF IsNil(node) THEN GNode(key)
    ELSE LET node1 == IF key < node.key
                        THEN [node EXCEPT !.left = generic_insert_helper(node.left, key)]
                      ELSE IF key > node.key
                        THEN [node EXCEPT !.right = generic_insert_helper(node.right, key)]
                      ELSE [node EXCEPT !.count = node.count + 1]
         IN  generic_insert_rebalance(set_weight(set_height(node1)), key)

GenInit ==
    /\ gRoot = Nil
    /\ gLast = [op |-> "init", key |-> 0]

GenInsert(key) ==
    /\ get_weight(gRoot) < MaxGWeight
    /\ gRoot' = generic_insert_helper(gRoot, key)
    /\ gLast' = [op |-> "insert", key |-> key]
    /\ UNCHANGED notGen

-----------------------------------------------------------------------------
(* Bulk construction: BoundsTree() followed by add_all(shapes, values) on   *)
(* the new tree, with the calls of append_median kept                        *)

\* the <<depth, xymm>> of the append_median calls that reach the median
\* selection, for the call append_median(_list, xymm) made at depth
RECURSIVE append_median_calls(_, _, _)
append_median_calls(list, xymm, depth) ==
    IF Len(list) = 0 THEN {}
    ELSE LET r == median_with_left_right(list, xymm)
         IN  {<<depth, xymm>>}
             \cup append_median_calls(r[1], append_median_next(xymm), depth + 1)
             \cup append_median_calls(r[3], append_median_next(xymm), depth + 1)

BuildIdle ==
    /\ bdCalls = {}
    /\ bdLast = [op |-> "init", arg |-> <<>>]

\* add_all(shapes, values) on a tree just constructed, values[i] = shapes[i].id,
\* for a list of at least one shape
BTBuild(shapes) ==
    /\ btLast.op = "init"
    /\ shapes # <<>>
    /\ LET sorted_zip == append_median(shapes, "min_x")
           t0 == [root      |-> BoundsNode(sorted_zip[1], sorted_zip[1].id, "min_x"),
                  weight    |-> btWeight + 1,
                  big_bound |-> get_bound_from_shape(shapes[1])]
           t1 == bt_add_all_loop(t0, Tail(sorted_zip))
       IN  /\ btRoot' = t1.root
           /\ btWeight' = t1.weight
           /\ btBigBound' = t1.big_bound
           /\ btLast' = [op |-> "add_all", arg |-> None, ret |-> None, err |-> "none"]
    /\ bdCalls' = append_median_calls(shapes, "min_x", 0)
    /\ bdLast' = [op |-> "add_all", arg |-> shapes]
    /\ UNCHANGED notBuild

-----------------------------------------------------------------------------
(* geometry/shape.py: Shape.points is a class attribute, one KDTree made    *)
(* when the class is defined; self.points in __init__ reads that attribute, *)
(* so kdRoot, kdWeight and kdBound are the tree of every Shape               *)

ShapeIdle == shapeArgs = <<>>

\* Shape(points) with a list of points
ShapeNew(points) ==
    /\ Len(shapeArgs) < MaxOwners
    /\ points # <<>>
    /\ LET t0 == IF IsNil(kdRoot)
                   THEN [root   |-> KDNode(points[1], "x"),
                         weight |-> kdWeight + 1,
                         bound  |-> kdBound]
                   ELSE [root |-> kdRoot, weight |-> kdWeight, bound |-> kdBound]
           rest == IF IsNil(kdRoot) THEN Tail(points) ELSE points
           t1 == add_all_loop(t0, rest)
       IN  /\ kdRoot' = t1.root
           /\ kdWeight' = t1.weight
           /\ kdBound' = t1.bound
           /\ kdLast' = [op |-> "add_all", arg |-> None, ret |-> None, err |-> "none"]
    /\ shapeArgs' = Append(shapeArgs, points)
    /\ UNCHANGED notShape

\*== MODEL SECTIONS END ==
-----------------------------------------------------------------------------
(* Specifications: one per structure; the other structures stay idle *)

Init ==
    /\ AVLInit /\ PQIdle /\ KQIdle /\ KDInit /\ BTInit /\ TQIdle /\ QSIdle
    /\ GenInit /\ BuildIdle /\ ShapeIdle

\* the AVLTree under insert and delete calls
Next ==
    \/ \E key \in Keys : AVLInsert(key)
    \/ \E key \in Keys : AVLDelete(key)

Spec == Init /\ [][Next]_vars

\* the plain PriorityQueue under enq and deq calls
NextPQ ==
    \/ \E val \in PQVals : PQEnq(val)
    \/ PQDeq

SpecPQ == Init /\ [][NextPQ]_vars

\* the keyed PriorityQueue under enq, deq and update calls, with values
\* whose key changes between the calls
InitKQ ==
    /\ AVLInit /\ PQIdle /\ KQInit /\ KDInit /\ BTInit /\ TQIdle /\ QSIdle
    /\ GenInit /\ BuildIdle /\ ShapeIdle

NextKQ ==
    \/ \E value \in KQVals : KQEnq(value)
    \/ KQDeq
    \/ \E value \in KQVals : KQUpdate(value)
    \/ \E value \in KQVals, key \in KQKeys : KQSetKey(value, key)

SpecKQ == InitKQ /\ [][NextKQ]_vars

\* the keyed PriorityQueue under enq and deq calls only, keys fixed
NextKQEnqDeq ==
    \/ \E value \in KQVals : KQEnq(value)
    \/ KQDeq

SpecKQEnqDeq == InitKQ /\ [][NextKQEnqDeq]_vars

\* the tree-keyed PriorityQueue under enq and deq calls, keys fixed
NextTQ ==
    \/ \E val \in KQVals : TQEnq(val)
    \/ TQDeq

SpecTQ == InitKQ /\ [][NextTQ]_vars

\* the plain and the keyed PriorityQueue under enq and deq calls; the two
\* share no field, so each is run with the other untouched
NextQueues ==
    \/ /\ kqLast.op = "init"
       /\ \/ \E val \in PQVals : PQEnq(val)
          \/ PQDeq
    \/ /\ pqLast.op = "init"
       /\ \/ \E value \in KQVals : KQEnq(value)
          \/ KQDeq

SpecQueues == InitKQ /\ [][NextQueues]_vars

\* the KDTree under add, add_all and nearest calls
Batches == UNION {[1..n -> Pts] : n \in 0..MaxBatch}

NextKD ==
    \/ \E point \in Pts : KDAdd(point)
    \/ \E points \in Batches : KDAddAll(points)
    \/ \E point \in Pts : KDNearest(point)

SpecKD == Init /\ [][NextKD]_vars

\* the BoundsTree loaded with pairwise disjoint shapes, under add_all and
\* find_shape calls
RECURSIVE SeqsOver(_, _)
SeqsOver(S, n) ==
    IF n = 0 THEN {<<>>}
    ELSE LET shorter == SeqsOver(S, n - 1)
         IN  shorter \cup {Append(q, x) : q \in {r \in shorter : Len(r) = n - 1}, x \in S}

\* the lists of distinct shapes that are disjoint from each other and from
\* the shapes of the tree
DisjointLists ==
    {l \in SeqsOver(Shapes, MaxShapes) :
        /\ \A i, j \in 1..Len(l) : i # j => (l[i] # l[j] /\ Disjoint(l[i], l[j]))
        /\ \A i \in 1..Len(l) : \A t \in BTShapes(btRoot) :
              l[i] # t /\ Disjoint(l[i], t)}

NextBT ==
    \/ \E shapes \in DisjointLists : BTAddAll(shapes)
    \/ \E point \in QueryPts : BTFindShape(point)

SpecBT == Init /\ [][NextBT]_vars

\* the BoundsTree loaded with shapes that may overlap: the shapes above and
\* one more that shares the points (2, 1) and (3, 1) with shape 3
OverlapShapes == Shapes \cup {Shape(7, <<1, 0, 4, 2>>, {P(2, 1), P(3, 1)})}

\* the lists of distinct shapes that are not in the tree
DistinctLists ==
    {l \in SeqsOver(OverlapShapes, MaxShapes) :
        /\ \A i, j \in 1..Len(l) : i # j => l[i] # l[j]
        /\ \A i \in 1..Len(l) : l[i] \notin BTShapes(btRoot)}

NextOverlap ==
    \/ \E shapes \in DistinctLists : BTAddAll(shapes)
    \/ \E point \in QueryPts : BTFindShape(point)

SpecOverlap == Init /\ [][NextOverlap]_vars

\* the selection functions called, in any order, on any list of at most
\* MaxLen integers
InitQS ==
    /\ AVLInit /\ PQIdle /\ KQIdle /\ KDInit /\ BTInit /\ TQIdle
    /\ GenInit /\ BuildIdle /\ ShapeIdle
    /\ qsIn \in SeqsOver(1..MaxElem, MaxLen)
    /\ qsArr = qsIn
    /\ qsLast = [op |-> "init", n |-> 0, ret |-> None]

NextQS ==
    \/ \E n \in 0..(MaxLen + 1) : QSQuickSelect(n)
    \/ QSMedianWithLeftRight

SpecQS == InitQS /\ [][NextQS]_vars

\* one of the AVLTree, the KDTree and the BoundsTree under its updates and
\* its queries; the three share no field, so each is run with the other two
\* untouched
NextQuery ==
    \/ /\ kdLast.op = "init" /\ btLast.op = "init"
       /\ \/ \E key \in Keys : get_weight(root) < MaxQueryWeight /\ AVLInsert(key)
          \/ \E key \in Keys : AVLDelete(key)
          \/ AVLGetMinValue
          \/ \E key \in Keys : AVLGetRank(key)
    \/ /\ avlLast.op = "init" /\ btLast.op = "init"
       /\ \/ \E point \in Pts : KDAdd(point)
          \/ \E points \in Batches : KDAddAll(points)
          \/ \E point \in Pts : KDNearest(point)
    \/ /\ avlLast.op = "init" /\ kdLast.op = "init"
       /\ \/ \E shapes \in DisjointLists : BTAddAll(shapes)
          \/ \E point \in QueryPts : BTFindShape(point)
          \/ \E point \in QueryPts : BTFindBoundsContaining(point)

SpecQuery == Init /\ [][NextQuery]_vars

\* the generic AVLTree under insert calls with negative, zero and positive keys
NextGen == \E key \in GKeys : GenInsert(key)

SpecGen == Init /\ [][NextGen]_vars

\* a BoundsTree bulk-constructed from boxes whose four edges are pairwise
\* distinct over the list: the i-th box is <<a[i], b[i], n + i, n + i>> for
\* permutations a, b of 1..n, and one list of DeepLen nested boxes, listed
\* from the box after the middle one outwards and then from the innermost
\* one up to the middle one
Perms(n) == {f \in [1..n -> 1..n] : \A i, j \in 1..n : i # j => f[i] # f[j]}

BoxList(a, b) ==
    [i \in DOMAIN a |-> Shape(i, <<a[i], b[i], Len(a) + i, Len(a) + i>>, {})]

DeepSize(i) == ((i + (DeepLen \div 2)) % DeepLen) + 1

DeepBox(i) ==
    Shape(i, <<DeepSize(i), DeepSize(i), DeepLen + DeepSize(i), DeepLen + DeepSize(i)>>, {})

DeepList == [i \in 1..DeepLen |-> DeepBox(i)] \o <<>>

BuildLists ==
    {DeepList} \cup
    UNION {{BoxList(a, b) : a, b \in Perms(n)} : n \in 1..MaxBuild}

NextBuild == \E shapes \in BuildLists : BTBuild(shapes)

SpecBuild == Init /\ [][NextBuild]_vars

\* Shape objects constructed one after the other, each from the three
\* corners of a unit cell of the grid that are left when one is taken away
CellCorners(x, y) ==
    <<GeoPt(y, x), GeoPt(y, x + 1), GeoPt(y + 1, x), GeoPt(y + 1, x + 1)>>

Triangles ==
    {[j \in 1..3 |-> IF j < i THEN CellCorners(x, y)[j] ELSE CellCorners(x, y)[j + 1]] :
        x \in 0..(GridMax - 1), y \in 0..(GridMax - 1), i \in 1..4}

NextShape == \E points \in Triangles : ShapeNew(points)

SpecShape == Init /\ [][NextShape]_vars

-----------------------------------------------------------------------------
(* Claims about the AVLTree, checked under Spec *)

CountLE(node, key) == CountLess(node, key) + CountOf(node, key)

\* the node the last delete call found had count 1 and two children
TwoChildDelete == avlLast.op = "delete" /\ avlLast.twoChild

\* C1: after every insert and delete call, every node's balance factor
\* height(left) - height(right), on the heights of the subtrees as they
\* are, is -1, 0 or 1.
C1_BalanceFactor ==
    \A n \in Nodes(root) :
        TrueHeight(n.left) - TrueHeight(n.right) \in {-1, 0, 1}

\* a delete below the root that ended with a rotation at the root
C1_Witness ==
    /\ avlLast.op = "delete"
    /\ avlLast.rootVal # None
    /\ ~IsNil(root)
    /\ avlLast.key # avlLast.rootVal[1]
    /\ root.val # avlLast.rootVal[1]

\* C2: the multiset the tree stores (per key, the sum of count over the
\* nodes holding it) equals the reference multiset: one more copy per
\* insert, one less per delete of a present key.
C2_MultisetMatchesReference ==
    \A k \in Keys : CountOf(root, k) = ref[k]

RECURSIVE StrictOrder(_)
StrictOrder(node) ==
    \/ IsNil(node)
    \/ /\ \A n \in Nodes(node.left) : n.val < node.val
       /\ \A n \in Nodes(node.right) : n.val > node.val
       /\ StrictOrder(node.left)
       /\ StrictOrder(node.right)

\* C6: get_rank(k) is 1 + the number of stored keys (with duplicates)
\* strictly below k, for present and absent k, and it is strictly
\* increasing over the distinct stored keys.
C6_RankLaw ==
    /\ \A k \in 0..(MaxKey + 1) : get_rank(root, k) = 1 + CountLess(root, k)
    /\ \A a, b \in StoredKeys(root) :
          a < b => get_rank(root, a) < get_rank(root, b)

-----------------------------------------------------------------------------
(* Claims about the plain PriorityQueue, checked under SpecPQ *)

RECURSIVE InsertSorted(_, _)
InsertSorted(seq, v) ==
    IF seq = <<>> THEN <<v>>
    ELSE IF v <= Head(seq) THEN <<v>> \o seq
    ELSE <<Head(seq)>> \o InsertSorted(Tail(seq), v)

RECURSIVE SortedCopy(_)
SortedCopy(seq) ==
    IF seq = <<>> THEN <<>>
    ELSE InsertSorted(SortedCopy(Tail(seq)), Head(seq))

\* C3: while every enq came before every deq, the dequeued values are
\* non-decreasing, and once as many values were dequeued as enqueued the
\* output is the sorted copy of the input and the queue is empty.
C3_QueueOrdering ==
    ~pqMixed =>
        /\ \A i \in 1..(Len(pqOut) - 1) : pqOut[i] <= pqOut[i + 1]
        /\ Len(pqOut) = Len(pqAll) => (pqOut = SortedCopy(pqAll) /\ is_empty(pqTree))
        /\ is_empty(pqTree) => Len(pqOut) = Len(pqAll)

\* an unsorted input with a duplicate, fully dequeued
C3_Witness ==
    /\ ~pqMixed
    /\ pqLast.op = "deq"
    /\ Len(pqAll) >= 3
    /\ Len(pqOut) = Len(pqAll)
    /\ pqOut # pqAll
    /\ \E i, j \in 1..Len(pqAll) : i < j /\ pqAll[i] = pqAll[j]

-----------------------------------------------------------------------------
(* Claims about the keyed PriorityQueue *)

KeysLen(k) == IF k \in DOMAIN keys THEN Len(keys[k]) ELSE 0

TreeMatchesKeys == \A k \in KQKeys : CountOf(kqTree, k) = KeysLen(k)

\* C9 (under SpecKQ): after update(value) of a value that was enqueued,
\* reverse_keys[value] is the new key and, for every key, the tree holds as
\* many copies as keys lists values.
C9_UpdateKeepsTreeAndKeys ==
    (kqLast.op = "update" /\ kqLast.err = "none" /\ kqLast.ret # None) =>
        /\ reverse_keys[kqLast.val[1]] = comp[kqLast.val[1]]
        /\ TreeMatchesKeys

\* The deq of build/lib/structures/pq_v2.py (under SpecKQEnqDeq): a deq on
\* a non-empty queue returns the value of the smallest key among the
\* enqueued pairs and, among the pairs of that key, the one enqueued last.
KQ_DeqIsLifoPerKey ==
    [][(kqLast'.op = "deq" /\ kqLive # <<>>) =>
           kqLast'.ret = Some(kqLive[LifoMinIndex(kqLive)][1])]_vars

\* a deq returned a value while an older value of the same key stays queued
KQ_DeqPassedOlderValue ==
    /\ kqLast.op = "deq"
    /\ kqLast.ret # None
    /\ \E i \in 1..Len(kqLive) :
          /\ kqLive[i][2] = comp[kqLast.ret[1]]
          /\ kqLive[i][1] # kqLast.ret[1]
    /\ \E i \in 1..Len(kqLive) : kqLive[i][2] > comp[kqLast.ret[1]]

\* C10 (under SpecTQ, the deq of structures/pq_v2.py): for any interleaving
\* of enq and deq, a deq on a non-empty queue returns the value of the
\* smallest key among the enqueued pairs and, among the pairs of that key,
\* the one enqueued last.
C10_DeqIsLifoPerKey ==
    [][(tqLast'.op = "deq" /\ tqLive # <<>>) =>
           tqLast'.ret = Some(tqLive[LifoMinIndex(tqLive)][1])]_vars

-----------------------------------------------------------------------------
(* Claims about the KDTree, checked under SpecKD *)

RECURSIVE KDPoints(_)
KDPoints(node) ==
    IF IsNil(node) THEN {}
    ELSE {node.point} \cup KDPoints(node.left) \cup KDPoints(node.right)

MinOver(S) == CHOOSE m \in S : \A n \in S : m <= n

\* C4: nearest(q) on a non-empty tree returns a stored point and, as its
\* distance, the smallest get_distance from q to a stored point.
C4_NearestIsMinimum ==
    (kdLast.op = "nearest" /\ ~IsNil(kdRoot)) =>
        /\ kdLast.ret[1] # None
        /\ kdLast.ret[1][1] \in KDPoints(kdRoot)
        /\ kdLast.ret[2] =
              MinOver({get_distance(kdLast.arg[1], p) : p \in KDPoints(kdRoot)})

-----------------------------------------------------------------------------
(* Claims about the BoundsTree, checked under SpecBT *)

Containing(point) == {t \in BTShapes(btRoot) : Shape_contains(t, point)}

\* C5: with pairwise disjoint shapes in the tree, find_shape(q) returns
\* the value of the one shape that contains q, and none if no shape does.
C5_FindShapeIsContainment ==
    btLast.op = "find_shape" =>
        LET q == btLast.arg[1]
        IN  /\ Containing(q) = {} => btLast.ret = None
            /\ \A t \in Containing(q) : btLast.ret = Some(t.id)

\* the shape found lies below the root, whose box also holds the point
C5_Witness ==
    /\ btLast.op = "find_shape"
    /\ btWeight >= 3
    /\ btLast.ret # None
    /\ btLast.ret[1] # btRoot.value
    /\ Bound_contains(get_bound_from_shape(btRoot.shape), btLast.arg[1])

\* C11: after any add / add_all calls the running bound of the KDTree
\* contains every stored point.
C11_BoundContainsPoints ==
    \A p \in KDPoints(kdRoot) : Bound_contains(kdBound, p)

\* C15: add_all with no points on an empty KDTree raises nothing and leaves
\* the tree empty.
C15_EmptyAddAllIsNoOp ==
    (kdLast.op = "add_all" /\ IsNil(kdRoot)) =>
        /\ kdLast.err = "none"
        /\ kdWeight = 0

-----------------------------------------------------------------------------
(* Claims about the bounds of the BoundsTree, checked under SpecBT *)

RECURSIVE BTNodes(_)
BTNodes(node) ==
    IF IsNil(node) THEN {}
    ELSE {node} \cup BTNodes(node.left) \cup BTNodes(node.right)

\* the box big holds the whole box b
Covers(big, b) ==
    /\ big.min_x <= b.min_x
    /\ b.max_x <= big.max_x
    /\ big.min_y <= b.min_y
    /\ b.max_y <= big.max_y

\* C12: the big_bound of every node covers the bounding box of the node's
\* own shape and of every shape stored below the node.
C12_BigBoundCoversSubtree ==
    \A n \in BTNodes(btRoot) : \A s \in BTShapes(n) :
        Covers(n.big_bound, get_bound_from_shape(s))

\* a node below the root has a child whose shape reaches outside the box of
\* the node's own shape
C12_Witness ==
    \E n \in BTNodes(btRoot) \ {btRoot} : \E s \in BTShapes(n) :
        ~Covers(get_bound_from_shape(n.shape), get_bound_from_shape(s))

\* C13: the big_bound of the tree covers the bounding box of every shape
\* stored in the tree.
C13_TreeBigBoundCoversShapes ==
    \A s \in BTShapes(btRoot) : Covers(btBigBound, get_bound_from_shape(s))

\* C20: the bound of every node stays the bounding box of the node's own
\* shape.
C20_NodeBoundIsOwnBox ==
    \A n \in BTNodes(btRoot) : n.bound = get_bound_from_shape(n.shape)

\* C16: add_all with an empty input on an empty index fails with an
\* "empty input" error, never through an out-of-bounds list access.
C16_EmptyInputFailsFast ==
    /\ (btLast.op = "add_all" /\ IsNil(btRoot)) => btLast.err = "EmptyInput"
    /\ (kdLast.op = "add_all" /\ IsNil(kdRoot)) => kdLast.err = "EmptyInput"

-----------------------------------------------------------------------------
(* Claims about the queries, checked under SpecQuery *)

\* C14: nearest on an empty KDTree returns (None, inf), get_min_value on an
\* empty AVLTree returns None, and find_shape returns None on an empty tree
\* and when no stored shape contains the point.
C14_EmptyQueriesReturnSentinel ==
    /\ (kdLast.op = "nearest" /\ IsNil(kdRoot)) => kdLast.ret = <<None, Inf>>
    /\ (avlLast.op = "get_min_value" /\ IsNil(root)) => avlRet = None
    /\ (btLast.op = "find_shape" /\ Containing(btLast.arg[1]) = {}) =>
           btLast.ret = None

\* find_shape found nothing in a tree whose boxes hold the point, down to a
\* node below the root
C14_Witness ==
    /\ btLast.op = "find_shape"
    /\ btLast.ret = None
    /\ \E n \in BTNodes(btRoot) \ {btRoot} :
          Bound_contains(n.big_bound, btLast.arg[1])

-----------------------------------------------------------------------------
(* Claims about quick_select and median_with_left_right, under SpecQS *)

Occurrences(seq, v) == Cardinality({i \in 1..Len(seq) : seq[i] = v})

IsPermutation(a, b) ==
    /\ Len(a) = Len(b)
    /\ \A v \in 1..MaxElem : Occurrences(a, v) = Occurrences(b, v)

\* C18: quick_select(arr, n) returns the element at position n of the
\* sorted list when 1 <= n <= len(arr) and None otherwise, and leaves arr a
\* permutation of what it was.
C18_QuickSelectIsNthSmallest ==
    qsLast.op = "quick_select" =>
        /\ IsPermutation(qsArr, qsIn)
        /\ IF 1 <= qsLast.n /\ qsLast.n <= Len(qsIn)
             THEN qsLast.ret = Some(SortedCopy(qsIn)[qsLast.n])
             ELSE qsLast.ret = None

\* a selection inside a list with equal elements that had to move elements
C18_Witness ==
    /\ qsLast.op = "quick_select"
    /\ qsLast.ret # None
    /\ 1 < qsLast.n /\ qsLast.n < Len(qsIn)
    /\ qsArr # qsIn
    /\ \E i, j \in 1..Len(qsIn) : i < j /\ qsIn[i] = qsIn[j]

\* C19: median_with_left_right(arr) on a list of length n > 0 returns
\* (L, m, R) with m at sorted position floor(n/2)+1, len(L) = floor(n/2),
\* len(R) = n - floor(n/2) - 1, L <= m <= R and L + [m] + R a permutation
\* of the input; on the empty list it returns ([], None, []).
C19_MedianWithLeftRight ==
    qsLast.op = "median_with_left_right" =>
        LET n == Len(qsIn)
            L == qsLast.ret[1]
            m == qsLast.ret[2]
            R == qsLast.ret[3]
        IN  IF n = 0 THEN qsLast.ret = <<(<<>>), None, (<<>>)>>
            ELSE /\ m = Some(SortedCopy(qsIn)[(n \div 2) + 1])
                 /\ Len(L) = n \div 2
                 /\ Len(R) = n - (n \div 2) - 1
                 /\ \A i \in 1..Len(L) : L[i] <= m[1]
                 /\ \A i \in 1..Len(R) : R[i] >= m[1]
                 /\ IsPermutation(L \o m \o R, qsIn)

\* the median of a list of four that was not sorted, with an element equal
\* to the median on its left
C19_Witness ==
    /\ qsLast.op = "median_with_left_right"
    /\ Len(qsIn) = 4
    /\ qsIn # SortedCopy(qsIn)
    /\ \E i \in 1..Len(qsLast.ret[1]) : Some(qsLast.ret[1][i]) = qsLast.ret[2]

-----------------------------------------------------------------------------
(* Further claims about the AVLTree (under Spec) and the queues *)

StrictlyIncreasing(seq) == \A i \in 1..(Len(seq) - 1) : seq[i] < seq[i + 1]

\* C27: after any insert / delete calls each key is held by at most one
\* node, the search order is strict, and in_order() is strictly increasing.
C27_StrictSearchOrder ==
    /\ StrictOrder(root)
    /\ StrictlyIncreasing(in_order(root))

\* copies of v in the plain queue: enqueued and not yet dequeued
PQCurrent(v) == Occurrences(pqAll, v) - Occurrences(pqOut, v)

\* C28 (under SpecPQ): in any interleaving of enq and deq, a deq on a
\* non-empty queue returns the smallest value in the queue and removes one
\* copy of it, and is_empty() holds exactly when no value remains.
C28_DeqReturnsMinimum ==
    [][/\ pqOut' # pqOut =>
             /\ pqLast'.ret # None
             /\ PQCurrent(pqLast'.ret[1]) > 0
             /\ \A v \in PQVals : PQCurrent(v) > 0 => pqLast'.ret[1] <= v
             /\ pqOut' = Append(pqOut, pqLast'.ret[1])
             /\ pqAll' = pqAll
       /\ \A v \in PQVals : CountOf(pqTree', v) = PQCurrent(v)'
       /\ is_empty(pqTree') <=> (\A v \in PQVals : PQCurrent(v)' = 0)]_vars

\* a deq after an enq that came after a deq, with the value returned still
\* in the queue and a larger one beside it
C28_Witness ==
    /\ pqLast.op = "deq"
    /\ pqMixed
    /\ pqLast.ret # None
    /\ PQCurrent(pqLast.ret[1]) > 0
    /\ \E v \in PQVals : v > pqLast.ret[1] /\ PQCurrent(v) > 0

\* C29 (under SpecKQEnqDeq): reverse_keys holds exactly the values that are
\* enqueued, each with the key it is listed under in keys.
C29_ReverseKeysAreLiveValues ==
    /\ DOMAIN reverse_keys = {kqLive[i][1] : i \in 1..Len(kqLive)}
    /\ \A v \in DOMAIN reverse_keys :
          /\ reverse_keys[v] \in DOMAIN keys
          /\ list_contains(keys[reverse_keys[v]], v)

\* C30 (under SpecQueues): deq on an empty queue returns None, raises
\* nothing and leaves the queue empty and as it was, for the plain and for
\* the keyed queue.
C30_DeqOnEmptyReturnsNone ==
    [][/\ (pqLast'.op = "deq" /\ is_empty(pqTree) /\ pqLast' # pqLast) =>
             /\ pqLast'.ret = None
             /\ UNCHANGED <<pqTree, pqAll, pqOut>>
       /\ (kqLast'.op = "deq" /\ IsNil(kqTree) /\ kqLast' # kqLast) =>
             /\ kqLast'.ret = None
             /\ kqLast'.err = "none"
             /\ UNCHANGED <<kqTree, keys, reverse_keys>>]_vars

\* a keyed queue emptied by deq calls was asked to deq again
C30_Witness ==
    /\ kqLast.op = "deq"
    /\ kqLast.ret = None
    /\ kqLast.err = "none"
    /\ IsNil(kqTree)
    /\ DOMAIN keys # {}

-----------------------------------------------------------------------------
(* Further claims about the KDTree, checked under SpecKD *)

\* the node at depth d splits on x for even d and on y for odd d, ties and
\* smaller coordinates are on its left, larger ones on its right
RECURSIVE KDOrdered(_, _)
KDOrdered(node, d) ==
    \/ IsNil(node)
    \/ /\ node.level = IF d % 2 = 0 THEN "x" ELSE "y"
       /\ \A p \in KDPoints(node.left) :
             coord(p, node.level) <= coord(node.point, node.level)
       /\ \A p \in KDPoints(node.right) :
             coord(p, node.level) > coord(node.point, node.level)
       /\ KDOrdered(node.left, d + 1)
       /\ KDOrdered(node.right, d + 1)

\* C25: after any add / add_all calls every node of the KDTree splits on
\* the axis of its depth (x, y, x, ...) with ties on the left.
C25_AxisAndOrder == KDOrdered(kdRoot, 0)

\* a tree three levels deep with a tie on the left of the root
C25_Witness ==
    /\ kdWeight >= 3
    /\ ~IsNil(kdRoot)
    /\ ~IsNil(kdRoot.left)
    /\ kdRoot.left.point.x = kdRoot.point.x
    /\ (~IsNil(kdRoot.left.left) \/ ~IsNil(kdRoot.left.right))

-----------------------------------------------------------------------------
(* Claims about the generic AVLTree, checked under SpecGen *)

\* C22: after any sequence of inserts of integer keys (negative, zero and
\* positive) into the generic AVLTree, every node's balance factor
\* height(left) - height(right) is -1, 0 or 1: an insert that leaves a node
\* out of balance applies one of the four rotations at that node.
C22_GenericBalanceFactor ==
    \A n \in Nodes(gRoot) :
        TrueHeight(n.left) - TrueHeight(n.right) \in {-1, 0, 1}

-----------------------------------------------------------------------------
(* Claims about bulk construction, checked under SpecBuild *)

EdgeCycle == <<"min_x", "min_y", "max_x", "max_y">>

\* the level BoundsNode.next_level gives a node created at depth d by add
RECURSIVE LevelAt(_)
LevelAt(d) ==
    IF d = 0 THEN "min_x"
    ELSE BoundsNode_next_level([level |-> LevelAt(d - 1)])

\* C23: the box edge used for the median selection at recursion depth d of
\* add_all is the (d mod 4)-th of min_x, min_y, max_x, max_y, and it is the
\* level next_level assigns to a node created at depth d by insertion.
C23_MedianEdgeCycles ==
    \A c \in bdCalls :
        /\ c[2] = EdgeCycle[(c[1] % 4) + 1]
        /\ c[2] = LevelAt(c[1])

RECURSIVE PlanTree(_, _)
\* the tree the recursive median split of add_all plans: the median at the
\* node, the plan of the lower half on the left, of the upper half on the right
PlanTree(list, xymm) ==
    IF Len(list) = 0 THEN Nil
    ELSE LET r == median_with_left_right(list, xymm)
         IN  [value |-> r[2][1].id,
              left  |-> PlanTree(r[1], append_median_next(xymm)),
              right |-> PlanTree(r[3], append_median_next(xymm))]

RECURSIVE TreeValues(_)
TreeValues(node) ==
    IF IsNil(node) THEN Nil
    ELSE [value |-> node.value,
          left  |-> TreeValues(node.left),
          right |-> TreeValues(node.right)]

RECURSIVE BTHeight(_)
BTHeight(node) ==
    IF IsNil(node) THEN 0
    ELSE 1 + Max(BTHeight(node.left), BTHeight(node.right))

RECURSIVE FloorLog2(_)
FloorLog2(n) == IF n <= 1 THEN 0 ELSE 1 + FloorLog2(n \div 2)

\* the four box edges are pairwise distinct over the shapes of the list
DistinctEdges(list) ==
    \A i, j \in 1..Len(list) : \A e \in 1..4 :
        i # j => list[i].bounds[e] # list[j].bounds[e]

\* C24: add_all of n >= 1 shapes whose box edges are pairwise distinct into
\* an empty BoundsTree yields the tree planned by the recursive median
\* split, of height at most floor(log2 n) + 1.
C24_BulkBuildIsPlannedTree ==
    (bdLast.op = "add_all" /\ DistinctEdges(bdLast.arg)) =>
        /\ TreeValues(btRoot) = PlanTree(bdLast.arg, "min_x")
        /\ BTHeight(btRoot) <= FloorLog2(Len(bdLast.arg)) + 1

-----------------------------------------------------------------------------
(* Claims about Shape, checked under SpecShape *)

\* C26: the point index of every Shape constructed so far holds exactly the
\* points given to that Shape's constructor, so constructing a second
\* Shape leaves the points and the weight of the first one's tree unchanged.
C26_EachShapeOwnsItsPoints ==
    \A i \in 1..Len(shapeArgs) :
        /\ KDPoints(kdRoot) = {shapeArgs[i][j] : j \in 1..Len(shapeArgs[i])}
        /\ kdWeight = Len(shapeArgs[i])

-----------------------------------------------------------------------------
(* Claims about find_shape on overlapping shapes, checked under SpecOverlap *)

\* the value of the first shape containing the point that the traversal of
\* find_shape meets: the node, then its left subtree, then its right subtree,
\* below the nodes whose big_bound contains the point
RECURSIVE FirstMatch(_, _)
FirstMatch(node, point) ==
    IF IsNil(node) THEN None
    ELSE IF ~Bound_contains(node.big_bound, point) THEN None
    ELSE IF Shape_contains(node.shape, point) THEN Some(node.value)
    ELSE LET l == FirstMatch(node.left, point)
         IN  IF l # None THEN l ELSE FirstMatch(node.right, point)

\* C21: find_shape returns the value of the first containing shape met in
\* its traversal order (node, left subtree, right subtree); a later match in
\* a sibling subtree does not replace it.
C21_FirstMatchIsReturned ==
    btLast.op = "find_shape" =>
        btLast.ret = FirstMatch(btRoot, btLast.arg[1])

====
